---- MODULE Spec2Model ----
(***************************************************************************)
(* odoo-ai-connector (src/index.js, Gemini variant v1.6.0): the request    *)
(* handlers /lead/analyze, /lead/analyze-and-create and                    *)
(* /webhooks/zadarma/call, the Gemini client, the Odoo JSON-RPC client     *)
(* (authenticateOdoo with its process-wide uid cache, getCountryIdByName,  *)
(* getTagIdsByNames, createOdooLead) as one state machine.                 *)
(*                                                                         *)
(* Node runs the handlers on one thread: a handler runs without            *)
(* interruption from one await of a remote reply to the next, and the      *)
(* handlers of different requests interleave only at those awaits.  Each   *)
(* action below is one such uninterrupted segment.                         *)
(***************************************************************************)
EXTENDS Integers, Sequences, FiniteSets, TLC

(***************************************************************************)
(* Bounds                                                                  *)
(***************************************************************************)
\* number of requests the server handles (all may be in flight together)
NumReqs == 2

Reqs == 1..NumReqs

(***************************************************************************)
(* JavaScript values.  A string is a tuple of one-character strings, so    *)
(* that trim() and toLowerCase() are computed and not assumed.             *)
(***************************************************************************)
Undef == [t |-> "undef"]
Str(s) == [t |-> "str", v |-> s]
Num(n) == [t |-> "num", n |-> n]
Obj(o) == [t |-> "obj", o |-> o]
Arr(a) == [t |-> "arr", a |-> a]

\* JS truthiness: undefined/null, "" and 0 are falsy
Truthy(x) ==
  CASE x.t = "undef" -> FALSE
    [] x.t = "str" -> x.v # <<>>
    [] x.t = "num" -> x.n # 0
    [] OTHER -> TRUE

\* a || b
Or(a, b) == IF Truthy(a) THEN a ELSE b

IsString(x) == x.t = "str"

UpperToLower ==
  [c \in {"A","B","C","D","E","F","G","H","I","J","K","L","M","N","O","P","Q",
          "R","S","T","U","V","W","X","Y","Z"} |->
     CASE c = "A" -> "a" [] c = "B" -> "b" [] c = "C" -> "c" [] c = "D" -> "d"
       [] c = "E" -> "e" [] c = "F" -> "f" [] c = "G" -> "g" [] c = "H" -> "h"
       [] c = "I" -> "i" [] c = "J" -> "j" [] c = "K" -> "k" [] c = "L" -> "l"
       [] c = "M" -> "m" [] c = "N" -> "n" [] c = "O" -> "o" [] c = "P" -> "p"
       [] c = "Q" -> "q" [] c = "R" -> "r" [] c = "S" -> "s" [] c = "T" -> "t"
       [] c = "U" -> "u" [] c = "V" -> "v" [] c = "W" -> "w" [] c = "X" -> "x"
       [] c = "Y" -> "y" [] c = "Z" -> "z"]

\* String.prototype.toLowerCase on the characters of s
toLowerCase(s) ==
  [i \in 1..Len(s) |->
     IF s[i] \in DOMAIN UpperToLower THEN UpperToLower[s[i]] ELSE s[i]]

IsSpace(c) == c \in {" ", "\t", "\n"}

RECURSIVE trimStart(_)
trimStart(s) ==
  IF s # <<>> /\ IsSpace(Head(s)) THEN trimStart(Tail(s)) ELSE s

RECURSIVE trimEnd(_)
trimEnd(s) ==
  IF s # <<>> /\ IsSpace(s[Len(s)]) THEN trimEnd(SubSeq(s, 1, Len(s) - 1)) ELSE s

\* String.prototype.trim
trim(s) == trimEnd(trimStart(s))

\* String(x) for the values the model uses
String(x) ==
  CASE x.t = "str" -> x.v
    [] x.t = "num" -> <<"#">>
    [] x.t = "undef" -> <<"u","n","d","e","f","i","n","e","d">>
    [] OTHER -> <<"[","o","b","j","]">>

(***************************************************************************)
(* Configuration (process.env), read once at start-up.  TRUE = set.        *)
(***************************************************************************)
AllSet ==
  [ODOO_BASE_URL |-> TRUE, ODOO_DB |-> TRUE, ODOO_USER_EMAIL |-> TRUE,
   ODOO_API_KEY |-> TRUE, GEMINI_API_KEY |-> TRUE, ODOO_APPOINTMENT_URL |-> TRUE]

\* the settings the handlers cannot work without
Required ==
  {"ODOO_BASE_URL", "ODOO_DB", "ODOO_USER_EMAIL", "ODOO_API_KEY", "GEMINI_API_KEY"}

\* the deployments considered: everything set, or one required setting left
\* unset
Envs == {AllSet} \cup { [AllSet EXCEPT ![k] = FALSE] : k \in Required }

(***************************************************************************)
(* Request bodies (req.body).  An absent field is Undef.                   *)
(***************************************************************************)
NoBody ==
  [text |-> Undef, mensaje |-> Undef, message |-> Undef, content |-> Undef,
   transcript |-> Undef, caller_name |-> Undef, caller_id |-> Undef,
   origen |-> Undef, source |-> Undef, canal |-> Undef, channel |-> Undef,
   nombre |-> Undef, name |-> Undef, contact_name |-> Undef, phone |-> Undef]

\* bodies sent to /lead/analyze and /lead/analyze-and-create
LeadBodies ==
  { NoBody,
    [NoBody EXCEPT !.text = Str(<<>>)],
    [NoBody EXCEPT !.text = Str(<<" ", "\n">>)],
    [NoBody EXCEPT !.text = Str(<<" ">>), !.mensaje = Str(<<"a">>)],
    [NoBody EXCEPT !.content = Str(<<" ", "a", " ">>), !.origen = Str(<<"w","e","b">>)] }

\* bodies sent to /webhooks/zadarma/call
CallBodies ==
  { NoBody,
    [NoBody EXCEPT !.transcript = Str(<<" ", " ">>)],
    [NoBody EXCEPT !.transcript = Str(<<" ", "a">>)] }

(***************************************************************************)
(* Country names                                                           *)
(***************************************************************************)
Desconocido == <<"D","e","s","c","o","n","o","c","i","d","o">>
desconocido == <<"d","e","s","c","o","n","o","c","i","d","o">>
DESCONOCIDO == <<"D","E","S","C","O","N","O","C","I","D","O">>
Espana == <<"E","s","p","a","n","a">>

(***************************************************************************)
(* Words of the analysis vocabulary                                        *)
(***************************************************************************)
maquina == <<"m","a","q","u","i","n","a">>
otros == <<"o","t","r","o","s">>
alta == <<"a","l","t","a">>
media == <<"m","e","d","i","a">>
baja == <<"b","a","j","a">>
es == <<"e","s">>
pizzas == <<"p","i","z","z","a","s">>
ambos == <<"a","m","b","o","s">>
operador == <<"o","p","e","r","a","d","o","r">>
telefono == <<"t","e","l","e","f","o","n","o">>
llamada == <<"l","l","a","m","a","d","a">>

(***************************************************************************)
(* What the model can answer: the JSON documents JSON.parse can return.    *)
(* A document is a parsed value: an object (its fields, Undef if absent)   *)
(* or the value null.                                                      *)
(***************************************************************************)
NoDoc ==
  [isNull |-> FALSE, intencion |-> Undef, intent |-> Undef, idioma |-> Undef,
   language |-> Undef, pais |-> Undef, country |-> Undef, urgencia |-> Undef,
   urgency |-> Undef, resumen |-> Undef, pregunta |-> Undef,
   datos_detectados |-> Undef, data |-> Undef]

Documents ==
  [ d_full |->
      [NoDoc EXCEPT !.intencion = Str(maquina), !.idioma = Str(es),
                    !.pais = Str(Espana), !.urgencia = Str(alta),
                    !.resumen = Str(<<"r">>)],
    d_upper |-> [NoDoc EXCEPT !.country = Str(DESCONOCIDO)],
    d_numpais |-> [NoDoc EXCEPT !.pais = Num(34)],
    d_null |-> [NoDoc EXCEPT !.isNull = TRUE] ]

\* Text of a Gemini candidate: characters, or one token standing for the JSON
\* text of one of the documents above.
DocTokens == DOMAIN Documents

GeminiTexts ==
  { Undef, Str(<<" ">>), Str(<<"h", "i">>), Str(<<"h", "d_full">>) }
  \cup { Str(<<" ", d, "\n">>) : d \in DocTokens }

(***************************************************************************)
(* State                                                                   *)
(***************************************************************************)
VARIABLES
  env,            \* process.env: which settings are set
  cachedOdooUid,  \* the process-wide uid cache (Undef = null)
  pc,             \* pc[r]: where request r's handler is suspended
  handler,        \* handler[r]: the route that serves request r
  body,           \* body[r]: req.body
  ai,             \* ai[r]: the normalized analysis handed to createOdooLead
  uid,            \* uid[r]: createOdooLead's local uid
  countryId,      \* countryId[r]: createOdooLead's local countryId
  tagIds,         \* tagIds[r]: createOdooLead's local tagIds
  calls,          \* calls[r]: the remote calls request r has issued, in order
  response,       \* response[r]: the HTTP response sent for request r
  endedBy,        \* endedBy[r]: the remote reply whose handling ended request r
  leads,          \* the records the CRM holds: the vals of each create it accepted
  authGranted,    \* the uids the CRM has granted to authenticate calls
  fcall           \* a direct call of one of the pure functions: its arguments
                  \* and, once it has run, what it returned or that it threw

vars ==
  <<env, cachedOdooUid, pc, handler, body, ai, uid, countryId, tagIds, calls,
    response, endedBy, leads, authGranted, fcall>>

\* the request ended without a reply being handled (validation, configuration,
\* a TypeError)
NoReply == [call |-> "none"]

NoResponse ==
  [status |-> 0, ok |-> FALSE, error |-> "", message |-> <<>>, lead_id |-> Undef,
   ai_status |-> "", motivo |-> <<>>, intencion |-> Undef, pais |-> Undef]

\* no function is being called directly
NoCall ==
  [fn |-> "none", state |-> "none", parsed |-> Undef, a |-> Undef, b |-> Undef,
   ret |-> Undef]

NoAI ==
  [intencion |-> Undef, idioma |-> Undef, pais |-> Undef, urgencia |-> Undef,
   resumen |-> Undef, pregunta |-> Undef, datos_detectados |-> Undef]

Init ==
  /\ env \in Envs
  /\ cachedOdooUid = Undef
  /\ pc = [r \in Reqs |-> "idle"]
  /\ handler = [r \in Reqs |-> "none"]
  /\ body = [r \in Reqs |-> NoBody]
  /\ ai = [r \in Reqs |-> NoAI]
  /\ uid = [r \in Reqs |-> Undef]
  /\ countryId = [r \in Reqs |-> Undef]
  /\ tagIds = [r \in Reqs |-> <<>>]
  /\ calls = [r \in Reqs |-> <<>>]
  /\ response = [r \in Reqs |-> NoResponse]
  /\ endedBy = [r \in Reqs |-> NoReply]
  /\ leads = <<>>
  /\ authGranted = {}
  /\ fcall = NoCall

(***************************************************************************)
(* Error messages are tuples of parts: a fixed text and what is appended.  *)
(***************************************************************************)
FetchFailed == <<"fetch failed">>
BodyUnreadable == <<"Unexpected token in JSON">>
TypeErrorMsg == <<"TypeError">>

(***************************************************************************)
(* Gemini client: callGeminiJSON                                           *)
(***************************************************************************)
\* what the Gemini endpoint can answer to one generateContent call
GeminiReplies ==
  { [kind |-> k, text |-> Undef] : k \in {"reject", "http", "unreadable"} }
  \cup { [kind |-> "ok", text |-> t] : t \in GeminiTexts }

\* data?.candidates?.[0]?.content?.parts?.[0]?.text && String(text).trim()
GeminiContent(text) == IF Truthy(text) THEN trim(String(text)) ELSE <<>>

\* JSON.parse: the text must be exactly one JSON document
JSONparseThrows(content) == ~(Len(content) = 1 /\ content[1] \in DocTokens)
JSONparse(content) == Documents[content[1]]

\* callGeminiJSON after its fetch has settled: the error it throws (ok = FALSE)
\* or the parsed value it returns
callGeminiJSON(reply) ==
  LET content == GeminiContent(reply.text) IN
  CASE reply.kind = "reject" ->
         [ok |-> FALSE, error |-> FetchFailed, parsed |-> NoDoc]
    [] reply.kind = "http" ->
         [ok |-> FALSE, error |-> <<"Error Gemini HTTP ", "status">>, parsed |-> NoDoc]
    [] reply.kind = "unreadable" ->
         [ok |-> FALSE, error |-> BodyUnreadable, parsed |-> NoDoc]
    [] OTHER ->
         IF content = <<>>
         THEN [ok |-> FALSE, error |-> <<"Gemini devolvio contenido vacio">>,
               parsed |-> NoDoc]
         ELSE IF JSONparseThrows(content)
         THEN [ok |-> FALSE, error |-> <<"error_parseo_json">>, parsed |-> NoDoc]
         ELSE [ok |-> TRUE, error |-> <<>>, parsed |-> JSONparse(content)]

MissingGeminiKey == <<"Falta la variable de entorno GEMINI_API_KEY">>

(***************************************************************************)
(* normalizeAIResult                                                       *)
(***************************************************************************)
\* the object {}
EmptyDatos == Obj([ubicacion |-> Undef])

\* reading a property of null throws a TypeError
normalizeAIResultThrows(parsed) == parsed.isNull

\* the alternate key is read before the primary key
normalizeAIResultAlternateFirst(parsed) ==
  [intencion |-> Or(Or(parsed.intent, parsed.intencion), Str(otros)),
   idioma |-> Or(Or(parsed.language, parsed.idioma), Str(es)),
   pais |-> Or(Or(parsed.country, parsed.pais), Str(Desconocido)),
   urgencia |-> Or(Or(parsed.urgency, parsed.urgencia), Str(media)),
   resumen |-> Or(parsed.resumen, Str(<<>>)),
   pregunta |-> Or(parsed.pregunta, Str(<<>>)),
   datos_detectados |-> Or(Or(parsed.data, parsed.datos_detectados), EmptyDatos)]

normalizeAIResult(parsed) ==
  [intencion |-> Or(Or(parsed.intencion, parsed.intent), Str(otros)),
   idioma |-> Or(Or(parsed.idioma, parsed.language), Str(es)),
   pais |-> Or(Or(parsed.pais, parsed.country), Str(Desconocido)),
   urgencia |-> Or(Or(parsed.urgencia, parsed.urgency), Str(media)),
   resumen |-> Or(parsed.resumen, Str(<<>>)),
   pregunta |-> Or(parsed.pregunta, Str(<<>>)),
   datos_detectados |-> Or(Or(parsed.datos_detectados, parsed.data), EmptyDatos)]

(***************************************************************************)
(* Responses of the handlers                                               *)
(***************************************************************************)
\* res.status(400).json({ok: false, error: "missing_text" | "missing_transcript"})
MissingTextResponse(h) ==
  [NoResponse EXCEPT !.status = 400, !.ok = FALSE,
     !.error = IF h = "zadarma" THEN "missing_transcript" ELSE "missing_text"]

\* the failure is answered as a server error
AnalyzeCatchHard(err) ==
  [NoResponse EXCEPT !.status = 500, !.ok = FALSE, !.error = "INTERNAL_ERROR",
     !.message = err]

\* the catch block of /lead/analyze
AnalyzeCatch(err) ==
  [NoResponse EXCEPT !.status = 200, !.ok = TRUE, !.ai_status = "pendiente",
     !.motivo = IF err = <<"error_parseo_json">> THEN <<"error_parseo">> ELSE err]

\* the failure is answered as a soft "pendiente" result
AnalyzeAndCreateCatchSoft(err) ==
  [NoResponse EXCEPT !.status = 200, !.ok = TRUE, !.ai_status = "pendiente",
     !.motivo = err]

\* the catch block of /lead/analyze-and-create
AnalyzeAndCreateCatch(err) ==
  [NoResponse EXCEPT !.status = 500, !.ok = FALSE, !.error = "odoo_or_ai_error",
     !.message = err]

\* the catch block of /webhooks/zadarma/call
ZadarmaCatch(err) ==
  [NoResponse EXCEPT !.status = 500, !.ok = FALSE,
     !.error = "zadarma_ai_or_odoo_error", !.message = err]

Catch(h, err) ==
  CASE h = "analyze" -> AnalyzeCatch(err)
    [] h = "create" -> AnalyzeAndCreateCatch(err)
    [] OTHER -> ZadarmaCatch(err)

\* res.json({ok: true, ai: {status: "ok", ...}}), with lead_id when there is one
OkResponse(normalized, leadId) ==
  [NoResponse EXCEPT !.status = 200, !.ok = TRUE, !.ai_status = "ok",
     !.lead_id = leadId, !.intencion = normalized.intencion,
     !.pais = normalized.pais]

(***************************************************************************)
(* Steps shared by the actions                                             *)
(***************************************************************************)
\* the handler of request r sends resp and returns: its locals are gone
Finish(r, resp, by) ==
  /\ pc' = [pc EXCEPT ![r] = "done"]
  /\ response' = [response EXCEPT ![r] = resp]
  /\ endedBy' = [endedBy EXCEPT ![r] = by]
  /\ ai' = [ai EXCEPT ![r] = NoAI]
  /\ uid' = [uid EXCEPT ![r] = Undef]
  /\ countryId' = [countryId EXCEPT ![r] = Undef]
  /\ tagIds' = [tagIds EXCEPT ![r] = <<>>]
  /\ UNCHANGED calls

\* the reply to `call` that ended a request
By(call, reply) == [call |-> call, reply |-> reply]

\* request r issues a remote call (fetch) and suspends at `at`
Issue(r, call, at) ==
  /\ calls' = [calls EXCEPT ![r] = Append(@, call)]
  /\ pc' = [pc EXCEPT ![r] = at]
  /\ UNCHANGED <<response, endedBy, ai, uid, countryId, tagIds>>

\* request r goes on to `at` without a remote call
Goto(r, at) ==
  /\ pc' = [pc EXCEPT ![r] = at]
  /\ UNCHANGED <<response, endedBy, calls>>

(***************************************************************************)
(* Handler entry: validation of the text, then callGeminiJSON up to its    *)
(* fetch                                                                   *)
(***************************************************************************)
\* body.text || body.mensaje || body.message || body.content || ""
LeadText(b) == Or(Or(Or(Or(b.text, b.mensaje), b.message), b.content), Str(<<>>))

\* the text is not trimmed before it is tested
MissingTextNoTrim(b) == ~Truthy(LeadText(b))

\* !text || !String(text).trim()
MissingText(b) == ~Truthy(LeadText(b)) \/ trim(String(LeadText(b))) = <<>>

\* String(body.transcript || "").trim()
Transcript(b) == trim(String(Or(b.transcript, Str(<<>>))))

\* !transcript
MissingTranscript(b) == Transcript(b) = <<>>

\* the handler of route h receives body b as request r
Enter(r, h, b, missing) ==
  /\ pc[r] = "idle"
  /\ handler' = [handler EXCEPT ![r] = h]
  /\ body' = [body EXCEPT ![r] = b]
  /\ IF missing
     THEN Finish(r, MissingTextResponse(h), NoReply)
     ELSE IF ~env.GEMINI_API_KEY
     THEN Finish(r, Catch(h, MissingGeminiKey), NoReply)
     ELSE Issue(r, "gemini", "gemini")
  /\ UNCHANGED <<fcall, env, cachedOdooUid, leads, authGranted>>

\* app.post("/lead/analyze")
AnalyzeHandler(r) ==
  \E b \in LeadBodies : Enter(r, "analyze", b, MissingText(b))

\* app.post("/lead/analyze-and-create")
AnalyzeAndCreateHandler(r) ==
  \E b \in LeadBodies : Enter(r, "create", b, MissingText(b))

\* app.post("/webhooks/zadarma/call")
ZadarmaHandler(r) ==
  \E b \in CallBodies : Enter(r, "zadarma", b, MissingTranscript(b))

\* The Gemini fetch of request r settles: callGeminiJSON returns or throws,
\* normalizeAIResult runs, and the handler answers (analyze) or calls
\* createOdooLead, which starts with authenticateOdoo.
GeminiReply(r) ==
  /\ pc[r] = "gemini"
  /\ \E reply \in GeminiReplies :
       LET res == callGeminiJSON(reply) IN
       IF ~res.ok
       THEN Finish(r, Catch(handler[r], res.error), By("gemini", reply))
       ELSE IF normalizeAIResultThrows(res.parsed)
       THEN Finish(r, Catch(handler[r], TypeErrorMsg), By("gemini", reply))
       ELSE IF handler[r] = "analyze"
       THEN Finish(r, OkResponse(normalizeAIResult(res.parsed), Undef),
                   By("gemini", reply))
       ELSE /\ ai' = [ai EXCEPT ![r] = normalizeAIResult(res.parsed)]
            /\ Goto(r, "authenticate")
            /\ UNCHANGED <<uid, countryId, tagIds>>
  /\ UNCHANGED <<fcall, env, cachedOdooUid, handler, body, leads, authGranted>>

(***************************************************************************)
(* authenticateOdoo                                                        *)
(***************************************************************************)
\* the cache is never consulted
AuthCacheHitNever(cache) == FALSE

\* if (cachedOdooUid)
AuthCacheHit(cache) == Truthy(cache)

\* !ODOO_BASE_URL || !ODOO_DB || !ODOO_USER_EMAIL || !ODOO_API_KEY
OdooVariablesMissing(e) ==
  ~e.ODOO_BASE_URL \/ ~e.ODOO_DB \/ ~e.ODOO_USER_EMAIL \/ ~e.ODOO_API_KEY

MissingOdooVariables == <<"Faltan variables Odoo (BASE_URL, DB, USER_EMAIL, API_KEY)">>

\* the uids the CRM hands out
Uids == {Num(1), Num(2)}

\* what the CRM can answer to an authenticate call: data.result is a uid, or
\* false / absent
AuthReplies ==
  { [kind |-> k, result |-> Undef] : k \in {"reject", "http", "unreadable"} }
  \cup { [kind |-> "ok", result |-> u] : u \in Uids \cup {Undef, Num(0)} }

\* data.result is stored in the cache before it is tested
authenticateOdooResultCachesFirst(cache, reply) ==
  CASE reply.kind = "reject" ->
         [ok |-> FALSE, error |-> FetchFailed, uid |-> Undef, cache |-> cache]
    [] reply.kind = "http" ->
         [ok |-> FALSE, error |-> <<"Error autenticando en Odoo: HTTP ", "status">>,
          uid |-> Undef, cache |-> cache]
    [] reply.kind = "unreadable" ->
         [ok |-> FALSE, error |-> BodyUnreadable, uid |-> Undef, cache |-> cache]
    [] OTHER ->
         IF ~Truthy(reply.result)
         THEN [ok |-> FALSE, error |-> <<"Autenticacion Odoo fallida (uid vacio)">>,
               uid |-> Undef, cache |-> reply.result]
         ELSE [ok |-> TRUE, error |-> <<>>, uid |-> reply.result,
               cache |-> reply.result]

\* data.result is not tested at all
authenticateOdooResultNoCheck(cache, reply) ==
  CASE reply.kind = "reject" ->
         [ok |-> FALSE, error |-> FetchFailed, uid |-> Undef, cache |-> cache]
    [] reply.kind = "http" ->
         [ok |-> FALSE, error |-> <<"Error autenticando en Odoo: HTTP ", "status">>,
          uid |-> Undef, cache |-> cache]
    [] reply.kind = "unreadable" ->
         [ok |-> FALSE, error |-> BodyUnreadable, uid |-> Undef, cache |-> cache]
    [] OTHER ->
         [ok |-> TRUE, error |-> <<>>, uid |-> reply.result, cache |-> reply.result]

\* authenticateOdoo after its fetch has settled: the error it throws, or the
\* uid it returns and the value it leaves in the cache
authenticateOdooResult(cache, reply) ==
  CASE reply.kind = "reject" ->
         [ok |-> FALSE, error |-> FetchFailed, uid |-> Undef, cache |-> cache]
    [] reply.kind = "http" ->
         [ok |-> FALSE, error |-> <<"Error autenticando en Odoo: HTTP ", "status">>,
          uid |-> Undef, cache |-> cache]
    [] reply.kind = "unreadable" ->
         [ok |-> FALSE, error |-> BodyUnreadable, uid |-> Undef, cache |-> cache]
    [] OTHER ->
         IF ~Truthy(reply.result)
         THEN [ok |-> FALSE, error |-> <<"Autenticacion Odoo fallida (uid vacio)">>,
               uid |-> Undef, cache |-> cache]
         ELSE [ok |-> TRUE, error |-> <<>>, uid |-> reply.result,
               cache |-> reply.result]

\* createOdooLead calls authenticateOdoo: cache hit, missing configuration, or
\* the authenticate call is issued
authenticateOdoo(r) ==
  /\ pc[r] = "authenticate"
  /\ IF AuthCacheHit(cachedOdooUid)
     THEN /\ uid' = [uid EXCEPT ![r] = cachedOdooUid]
          /\ Goto(r, "country")
          /\ UNCHANGED <<ai, countryId, tagIds>>
     ELSE IF OdooVariablesMissing(env)
     THEN Finish(r, Catch(handler[r], MissingOdooVariables), NoReply)
     ELSE Issue(r, "authenticate", "auth")
  /\ UNCHANGED <<fcall, env, cachedOdooUid, handler, body, leads, authGranted>>

\* a failed authentication is not raised: createOdooLead goes on without a uid
AuthenticateReplySwallowed(r) ==
  /\ pc[r] = "auth"
  /\ \E reply \in AuthReplies :
       LET res == authenticateOdooResult(cachedOdooUid, reply) IN
       /\ cachedOdooUid' = res.cache
       /\ uid' = [uid EXCEPT ![r] = res.uid]
       /\ Goto(r, "country")
       /\ UNCHANGED <<ai, countryId, tagIds>>
       /\ authGranted' = IF reply.kind = "ok"
                         THEN authGranted \cup ({reply.result} \cap Uids)
                         ELSE authGranted
  /\ UNCHANGED <<fcall, env, handler, body, leads>>

\* the authenticate fetch of request r settles
AuthenticateReply(r) ==
  /\ pc[r] = "auth"
  /\ \E reply \in AuthReplies :
       LET res == authenticateOdooResult(cachedOdooUid, reply) IN
       /\ cachedOdooUid' = res.cache
       /\ IF res.ok
          THEN /\ uid' = [uid EXCEPT ![r] = res.uid]
               /\ Goto(r, "country")
               /\ UNCHANGED <<ai, countryId, tagIds>>
          ELSE Finish(r, Catch(handler[r], res.error), By("authenticate", reply))
       /\ authGranted' = IF reply.kind = "ok"
                         THEN authGranted \cup ({reply.result} \cap Uids)
                         ELSE authGranted
  /\ UNCHANGED <<fcall, env, handler, body, leads>>

(***************************************************************************)
(* buildTagNames                                                           *)
(***************************************************************************)
TagMaquina ==
  <<"M","á","q","u","i","n","a"," ","d","e"," ","P","i","z","z","a","s"," ","y"," ","c","o","m","i","d","a">>
TagUrgAlta == <<"U","r","g","e","n","c","i","a",":"," ","a","l","t","a">>
TagLeadValido == <<"I","A",":"," ","L","e","a","d"," ","v","á","l","i","d","o">>
TagRevisar ==
  <<"I","A",":"," ","R","e","v","i","s","a","r"," ","m","a","n","u","a","l","m","e","n","t","e">>

\* switch (intencion): the cases other than default
IntencionTags ==
  { <<<<"m","a","q","u","i","n","a">>,
       <<"M","á","q","u","i","n","a"," ","d","e"," ","P","i","z","z","a","s"," ","y"," ","c","o","m","i","d","a">>>>,
    <<<<"p","i","z","z","a","s">>,
       <<"P","i","z","z","a"," ","s","e","c","t","o","r"," ","H","o","r","e","c","a">>>>,
    <<<<"a","m","b","o","s">>,
       <<"A","m","b","o","s">>>>,
    <<<<"o","p","e","r","a","d","o","r">>,
       <<"O","p","e","r","a","d","o","r"," ","v","e","n","d","i","n","g">>>>,
    <<<<"s","o","p","o","r","t","e">>,
       <<"I","A",":"," ","S","o","p","o","r","t","e"," ","t","é","c","n","i","c","o">>>>,
    <<<<"i","n","f","o">>,
       <<"I","A",":"," ","I","n","f","o","r","m","a","c","i","ó","n"," ","g","e","n","e","r","a","l">>>>,
    <<<<"o","t","r","o","s">>,
       <<"O","t","r","o","s">>>> }

UrgenciaTags ==
  { <<<<"a","l","t","a">>,
       <<"U","r","g","e","n","c","i","a",":"," ","a","l","t","a">>>>,
    <<<<"m","e","d","i","a">>,
       <<"U","r","g","e","n","c","i","a",":"," ","m","e","d","i","a">>>>,
    <<<<"b","a","j","a">>,
       <<"U","r","g","e","n","c","i","a",":"," ","b","a","j","a">>>> }

OrigenTags ==
  { <<<<"w","e","b">>,
       <<"O","r","i","g","e","n",":"," ","w","e","b">>>>,
    <<<<"e","m","a","i","l">>,
       <<"O","r","i","g","e","n",":"," ","e","m","a","i","l">>>>,
    <<<<"t","e","l","e","f","o","n","o">>,
       <<"O","r","i","g","e","n",":"," ","t","e","l","é","f","o","n","o">>>>,
    <<<<"t","e","l","é","f","o","n","o">>,
       <<"O","r","i","g","e","n",":"," ","t","e","l","é","f","o","n","o">>>>,
    <<<<"r","e","d","_","s","o","c","i","a","l">>,
       <<"O","r","i","g","e","n",":"," ","r","e","d","e","s"," ","s","o","c","i","a","l","e","s">>>>,
    <<<<"r","e","d","e","s">>,
       <<"O","r","i","g","e","n",":"," ","r","e","d","e","s"," ","s","o","c","i","a","l","e","s">>>>,
    <<<<"s","o","c","i","a","l">>,
       <<"O","r","i","g","e","n",":"," ","r","e","d","e","s"," ","s","o","c","i","a","l","e","s">>>>,
    <<<<"c","i","t","a">>,
       <<"O","r","i","g","e","n",":"," ","c","i","t","a">>>> }

CanalTags ==
  { <<<<"f","o","r","m","u","l","a","r","i","o">>,
       <<"C","a","n","a","l",":"," ","f","o","r","m","u","l","a","r","i","o">>>>,
    <<<<"l","l","a","m","a","d","a">>,
       <<"C","a","n","a","l",":"," ","l","l","a","m","a","d","a">>>>,
    <<<<"w","h","a","t","s","a","p","p">>,
       <<"C","a","n","a","l",":"," ","W","h","a","t","s","A","p","p">>>>,
    <<<<"i","n","s","t","a","g","r","a","m">>,
       <<"C","a","n","a","l",":"," ","I","n","s","t","a","g","r","a","m">>>>,
    <<<<"f","a","c","e","b","o","o","k">>,
       <<"C","a","n","a","l",":"," ","F","a","c","e","b","o","o","k">>>>,
    <<<<"c","i","t","a">>,
       <<"C","a","n","a","l",":"," ","c","i","t","a">>>> }

\* the tag a table gives for a key: <<tag>>, or <<>> when no case matches
TagFor(tbl, key) ==
  IF \E p \in tbl : p[1] = key
  THEN <<(CHOOSE p \in tbl : p[1] = key)[2]>>
  ELSE <<>>

\* n.startsWith("IA:")
startsWithIA(n) == Len(n) >= 3 /\ SubSeq(n, 1, 3) = <<"I","A",":">>

\* tagNames.some((n) => n.startsWith("IA:"))
someIA(names) == \E i \in 1..Len(names) : startsWithIA(names[i])

\* Array.from(new Set(tagNames)): first occurrences, in order
RECURSIVE ArrayFromSet(_)
ArrayFromSet(names) ==
  IF names = <<>> THEN <<>>
  ELSE LET init == SubSeq(names, 1, Len(names) - 1)
           last == names[Len(names)]
       IN IF \E i \in 1..Len(init) : init[i] = last
          THEN ArrayFromSet(init)
          ELSE Append(ArrayFromSet(init), last)

\* (x || "").toLowerCase() throws a TypeError when x is truthy and no string
lowerThrows(x) == Truthy(x) /\ ~IsString(x)

\* (x || "").toLowerCase()
lower(x) == toLowerCase(Or(x, Str(<<>>)).v)

buildTagNamesThrows(a, b) ==
  \/ lowerThrows(a.intencion)
  \/ lowerThrows(a.urgencia)
  \/ lowerThrows(Or(b.origen, b.source))
  \/ lowerThrows(Or(b.canal, b.channel))

\* the closing "needs manual review" fallback is left out
buildTagNamesNoFallback(a, b) ==
  LET intencion == lower(a.intencion)
      t1 == IF TagFor(IntencionTags, intencion) # <<>>
            THEN TagFor(IntencionTags, intencion)
            ELSE <<TagRevisar>>
      t2 == t1 \o TagFor(UrgenciaTags, lower(a.urgencia))
      t3 == t2 \o TagFor(OrigenTags, lower(Or(b.origen, b.source)))
      t4 == t3 \o TagFor(CanalTags, lower(Or(b.canal, b.channel)))
      t5 == IF ~someIA(t4) /\ intencion \in {maquina, pizzas, ambos, operador}
            THEN Append(t4, TagLeadValido)
            ELSE t4
  IN ArrayFromSet(t5)

buildTagNames(a, b) ==
  LET intencion == lower(a.intencion)
      t1 == IF TagFor(IntencionTags, intencion) # <<>>
            THEN TagFor(IntencionTags, intencion)
            ELSE <<TagRevisar>>
      t2 == t1 \o TagFor(UrgenciaTags, lower(a.urgencia))
      t3 == t2 \o TagFor(OrigenTags, lower(Or(b.origen, b.source)))
      t4 == t3 \o TagFor(CanalTags, lower(Or(b.canal, b.channel)))
      t5 == IF ~someIA(t4) /\ intencion \in {maquina, pizzas, ambos, operador}
            THEN Append(t4, TagLeadValido)
            ELSE t4
      t6 == IF ~someIA(t5) THEN Append(t5, TagRevisar) ELSE t5
  IN ArrayFromSet(t6)

(***************************************************************************)
(* getCountryIdByName                                                      *)
(***************************************************************************)
\* countryName.toLowerCase() throws a TypeError when countryName is truthy
\* and no string
getCountryIdByNameThrows(countryName) == Truthy(countryName) /\ ~IsString(countryName)

\* the name is compared as it is written
CountryShortCircuitCaseSensitive(countryName) ==
  ~Truthy(countryName) \/ countryName.v = desconocido

\* !countryName || countryName.toLowerCase() === "desconocido"
CountryShortCircuit(countryName) ==
  ~Truthy(countryName) \/ toLowerCase(countryName.v) = desconocido

\* what the CRM can answer to the res.country search
CountryReplies ==
  { [kind |-> k, result |-> Undef] : k \in {"reject", "http", "unreadable", "error"} }
  \cup { [kind |-> "ok", result |-> x] : x \in {Undef, Arr(<<>>), Arr(<<Num(5)>>)} }

\* getCountryIdByName after its fetch has settled: the error it throws, or
\* the id it returns (Undef = null)
getCountryIdByNameResult(reply) ==
  CASE reply.kind = "reject" -> [ok |-> FALSE, error |-> FetchFailed, id |-> Undef]
    [] reply.kind = "unreadable" -> [ok |-> FALSE, error |-> BodyUnreadable, id |-> Undef]
    [] reply.kind = "http" -> [ok |-> TRUE, error |-> <<>>, id |-> Undef]
    [] reply.kind = "error" -> [ok |-> TRUE, error |-> <<>>, id |-> Undef]
    [] OTHER ->
         LET ids == Or(reply.result, Arr(<<>>)).a IN
         [ok |-> TRUE, error |-> <<>>,
          id |-> IF Len(ids) # 0 THEN ids[1] ELSE Undef]

\* createOdooLead after authenticateOdoo returned: the record fields and the
\* priority are computed, then getCountryIdByName runs up to its fetch
getCountryIdByName(r) ==
  /\ pc[r] = "country"
  /\ IF lowerThrows(ai[r].urgencia) \/ getCountryIdByNameThrows(ai[r].pais)
     THEN Finish(r, Catch(handler[r], TypeErrorMsg), NoReply)
     ELSE IF CountryShortCircuit(ai[r].pais)
     THEN Goto(r, "tags") /\ UNCHANGED <<ai, uid, countryId, tagIds>>
     ELSE Issue(r, "country", "countrywait")
  /\ UNCHANGED <<fcall, env, cachedOdooUid, handler, body, leads, authGranted>>

\* the res.country fetch of request r settles
CountryReply(r) ==
  /\ pc[r] = "countrywait"
  /\ \E reply \in CountryReplies :
       LET res == getCountryIdByNameResult(reply) IN
       IF res.ok
       THEN /\ countryId' = [countryId EXCEPT ![r] = res.id]
            /\ Goto(r, "tags")
            /\ UNCHANGED <<ai, uid, tagIds>>
       ELSE Finish(r, Catch(handler[r], res.error), By("country", reply))
  /\ UNCHANGED <<fcall, env, cachedOdooUid, handler, body, leads, authGranted>>

(***************************************************************************)
(* getTagIdsByNames                                                        *)
(***************************************************************************)
\* the body createOdooLead is given: req.body, or the leadBody the Zadarma
\* handler builds
OriginalBody(h, b) ==
  IF h = "zadarma"
  THEN [NoBody EXCEPT !.text = Str(Transcript(b)),
                      !.nombre = Or(b.caller_name, Str(<<"Llamada entrante">>)),
                      !.phone = Or(b.caller_id, Str(<<>>)),
                      !.origen = Str(telefono), !.canal = Str(llamada)]
  ELSE b

\* (names || []).map((n) => String(n || "").trim()).filter((n) => n.length > 0)
clean(names) == SelectSeq([i \in 1..Len(names) |-> trim(names[i])], LAMBDA n : Len(n) > 0)

\* what the CRM can answer to the crm.tag search_read
TagReplies ==
  { [kind |-> k, result |-> Undef] : k \in {"reject", "http", "unreadable", "error"} }
  \cup { [kind |-> "ok", result |-> x] :
           x \in {Undef, Arr(<<>>), Arr(<<[id |-> Num(11)]>>)} }

\* getTagIdsByNames after its fetch has settled
getTagIdsByNamesResult(reply) ==
  CASE reply.kind = "reject" -> [ok |-> FALSE, error |-> FetchFailed, ids |-> <<>>]
    [] reply.kind = "unreadable" -> [ok |-> FALSE, error |-> BodyUnreadable, ids |-> <<>>]
    [] reply.kind = "http" -> [ok |-> TRUE, error |-> <<>>, ids |-> <<>>]
    [] reply.kind = "error" -> [ok |-> TRUE, error |-> <<>>, ids |-> <<>>]
    [] OTHER ->
         LET found == Or(reply.result, Arr(<<>>)).a IN
         [ok |-> TRUE, error |-> <<>>, ids |-> [i \in 1..Len(found) |-> found[i].id]]

\* createOdooLead after getCountryIdByName returned: buildTagNames, then
\* getTagIdsByNames up to its fetch
getTagIdsByNames(r) ==
  /\ pc[r] = "tags"
  /\ LET b == OriginalBody(handler[r], body[r]) IN
     IF buildTagNamesThrows(ai[r], b)
     THEN Finish(r, Catch(handler[r], TypeErrorMsg), NoReply)
     ELSE IF Len(clean(buildTagNames(ai[r], b))) = 0
     THEN Goto(r, "create") /\ UNCHANGED <<ai, uid, countryId, tagIds>>
     ELSE Issue(r, "tags", "tagswait")
  /\ UNCHANGED <<fcall, env, cachedOdooUid, handler, body, leads, authGranted>>

\* the crm.tag fetch of request r settles
TagsReply(r) ==
  /\ pc[r] = "tagswait"
  /\ \E reply \in TagReplies :
       LET res == getTagIdsByNamesResult(reply) IN
       IF res.ok
       THEN /\ tagIds' = [tagIds EXCEPT ![r] = res.ids]
            /\ Goto(r, "create")
            /\ UNCHANGED <<ai, uid, countryId>>
       ELSE Finish(r, Catch(handler[r], res.error), By("tags", reply))
  /\ UNCHANGED <<fcall, env, cachedOdooUid, handler, body, leads, authGranted>>

(***************************************************************************)
(* createOdooLead: the record and the crm.lead create call                 *)
(***************************************************************************)
\* datos.ubicacion, undefined on anything that is no object
ubicacionOf(datos) == IF datos.t = "obj" THEN datos.o.ubicacion ELSE Undef

\* buildSuggestedReply throws a TypeError on a truthy non-string idioma,
\* intencion, urgencia or datos_detectados.ubicacion
buildSuggestedReplyThrows(a) ==
  \/ lowerThrows(Or(a.idioma, Str(es)))
  \/ lowerThrows(a.intencion)
  \/ lowerThrows(a.urgencia)
  \/ lowerThrows(ubicacionOf(Or(a.datos_detectados, EmptyDatos)))

\* an unrecognized urgency gets the middle priority
priorityDefaultMedium(a) ==
  LET urg == lower(a.urgencia) IN
  IF urg = alta THEN "3" ELSE IF urg = baja THEN "1" ELSE "2"

\* Prioridad segun urgencia
priority(a) ==
  LET urg == lower(a.urgencia) IN
  IF urg = alta THEN "3" ELSE IF urg = media THEN "2" ELSE "1"

\* the vals of the record
Vals(a, b, cid, tids) ==
  [name |-> Or(Or(a.resumen, a.pregunta), Str(<<"Nuevo lead desde IA">>)),
   contact_name |-> Or(Or(Or(b.nombre, b.name), b.contact_name),
                       Str(<<"Lead sin nombre">>)),
   priority |-> priority(a),
   country_id |-> Or(cid, Undef),
   tag_ids |-> IF Len(tids) # 0 THEN Arr(tids) ELSE Undef]

\* the error objects the CRM can report: error.data.message and error.message,
\* each absent, empty or a text
OdooErrors ==
  [data_message : {Undef, Str(<<>>), Str(<<"detail">>)},
   message : {Undef, Str(<<"top">>)}]

NoOdooError == [data_message |-> Undef, message |-> Undef]

\* what the CRM can answer to the crm.lead create: newId is the identifier of
\* the record it has stored when it answers with one
CreateReplies(newId) ==
  { [kind |-> k, error |-> NoOdooError, result |-> Undef] :
      k \in {"reject", "http", "unreadable"} }
  \cup { [kind |-> "error", error |-> e, result |-> Undef] : e \in OdooErrors }
  \cup { [kind |-> "error", error |-> NoOdooError, result |-> Num(newId)] }
  \cup { [kind |-> "ok", error |-> NoOdooError, result |-> x] :
           x \in {Num(newId), Undef, Str(<<"7">>)} }

\* the top-level message is preferred to the nested one
OdooErrorMessageTopFirst(e) == Or(Or(e.message, e.data_message), Str(<<"{error}">>))

\* (data.error.data && data.error.data.message) || data.error.message ||
\* JSON.stringify(data.error)
OdooErrorMessage(e) == Or(Or(e.data_message, e.message), Str(<<"{error}">>))

\* typeof data.result !== "number"
NotNumeric(x) == x.t # "num"

\* createOdooLead after the create fetch has settled: the error it throws, or
\* the identifier it returns
createOdooLeadResult(reply) ==
  CASE reply.kind = "reject" -> [ok |-> FALSE, error |-> FetchFailed, id |-> Undef]
    [] reply.kind = "http" ->
         [ok |-> FALSE, error |-> <<"Error creando lead en Odoo: HTTP ", "status">>,
          id |-> Undef]
    [] reply.kind = "unreadable" ->
         [ok |-> FALSE, error |-> BodyUnreadable, id |-> Undef]
    [] reply.kind = "error" ->
         [ok |-> FALSE,
          error |-> <<"Odoo error creando lead: ">> \o OdooErrorMessage(reply.error).v,
          id |-> Undef]
    [] OTHER ->
         IF NotNumeric(reply.result)
         THEN [ok |-> FALSE, error |-> <<"Odoo no devolvio un ID numerico de lead">>,
               id |-> Undef]
         ELSE [ok |-> TRUE, error |-> <<>>, id |-> reply.result]

\* a search-before-create guard: a record with the same vals is reused
createOdooLeadSearchFirst(r) ==
  /\ pc[r] = "create"
  /\ LET vals == Vals(ai[r], OriginalBody(handler[r], body[r]), countryId[r],
                      tagIds[r])
     IN IF buildSuggestedReplyThrows(ai[r])
        THEN Finish(r, Catch(handler[r], TypeErrorMsg), NoReply)
        ELSE IF \E i \in 1..Len(leads) : leads[i] = vals
        THEN Finish(r, OkResponse(ai[r], Num(CHOOSE i \in 1..Len(leads) : leads[i] = vals)),
                    NoReply)
        ELSE Issue(r, "create", "createwait")
  /\ UNCHANGED <<fcall, env, cachedOdooUid, handler, body, leads, authGranted>>

\* createOdooLead after getTagIdsByNames returned: buildSuggestedReply, the
\* vals, then the create fetch
createOdooLead(r) ==
  /\ pc[r] = "create"
  /\ IF buildSuggestedReplyThrows(ai[r])
     THEN Finish(r, Catch(handler[r], TypeErrorMsg), NoReply)
     ELSE Issue(r, "create", "createwait")
  /\ UNCHANGED <<fcall, env, cachedOdooUid, handler, body, leads, authGranted>>

\* the create fetch of request r settles; the handler answers
CreateReply(r) ==
  /\ pc[r] = "createwait"
  /\ \E reply \in CreateReplies(Len(leads) + 1) :
       LET res == createOdooLeadResult(reply) IN
       /\ leads' = IF reply.kind = "ok" /\ reply.result = Num(Len(leads) + 1)
                   THEN Append(leads, Vals(ai[r], OriginalBody(handler[r], body[r]),
                                           countryId[r], tagIds[r]))
                   ELSE leads
       /\ IF res.ok
          THEN Finish(r, OkResponse(ai[r], res.id), By("create", reply))
          ELSE Finish(r, Catch(handler[r], res.error), By("create", reply))
  /\ UNCHANGED <<fcall, env, cachedOdooUid, handler, body, authGranted>>

(***************************************************************************)
(* The server                                                              *)
(***************************************************************************)
Next ==
  \E r \in Reqs :
    \/ AnalyzeHandler(r)
    \/ AnalyzeAndCreateHandler(r)
    \/ ZadarmaHandler(r)
    \/ GeminiReply(r)
    \/ authenticateOdoo(r)
    \/ AuthenticateReply(r)
    \/ getCountryIdByName(r)
    \/ CountryReply(r)
    \/ getTagIdsByNames(r)
    \/ TagsReply(r)
    \/ createOdooLead(r)
    \/ CreateReply(r)

Spec == Init /\ [][Next]_vars

(***************************************************************************)
(* getCountryIdByName called on its own: each request slot is one call     *)
(* getCountryIdByName(uid, countryName) against a CRM that counts the      *)
(* calls it receives (calls[r]); the caller is at the point of             *)
(* createOdooLead where the function is invoked.                           *)
(***************************************************************************)
\* the names the function is called with
CountryNames ==
  { Undef, Str(<<>>), Str(desconocido), Str(Desconocido), Str(DESCONOCIDO),
    Str(<<"d","E","s","C","o","N","o","C","i","D","o">>),
    Str(desconocido \o <<" ">>), Str(<<"d","e","s">>), Str(Espana) }

InitCountry ==
  /\ env = AllSet
  /\ cachedOdooUid \in Uids
  /\ pc = [r \in Reqs |-> "country"]
  /\ handler = [r \in Reqs |-> "create"]
  /\ body = [r \in Reqs |-> [NoBody EXCEPT !.text = Str(<<"a">>)]]
  /\ ai \in [Reqs -> { [normalizeAIResult(NoDoc) EXCEPT !.pais = n] :
                          n \in CountryNames }]
  /\ uid = [r \in Reqs |-> cachedOdooUid]
  /\ countryId = [r \in Reqs |-> Undef]
  /\ tagIds = [r \in Reqs |-> <<>>]
  /\ calls = [r \in Reqs |-> <<>>]
  /\ response = [r \in Reqs |-> NoResponse]
  /\ endedBy = [r \in Reqs |-> NoReply]
  /\ leads = <<>>
  /\ authGranted = {cachedOdooUid}
  /\ fcall = NoCall

NextCountry ==
  \E r \in Reqs :
    \/ getCountryIdByName(r)
    \/ CountryReply(r)

SpecCountry == InitCountry /\ [][NextCountry]_vars

(***************************************************************************)
(* buildSuggestedReply.  A text is a tuple of pieces: the fixed pieces of  *)
(* the templates and the characters of the values put into them.           *)
(***************************************************************************)
soporte == <<"s","o","p","o","r","t","e">>
info == <<"i","n","f","o">>
ca == <<"c","a">>
noespecifica == <<"n","o"," ","e","s","p","e","c","i","f","i","c","a">>

\* const citaUrl = ODOO_APPOINTMENT_URL (process.env.ODOO_APPOINTMENT_URL || "")
citaUrl(e) == IF e.ODOO_APPOINTMENT_URL THEN Str(<<"https://cita">>) ELSE Str(<<>>)

\* the piece that opens the booking suggestion, in each template
BookCallEn == "If you prefer, you can book a call here: "
BookCallEs == "Puedes agendar una cita directamente aqui: "

\* the sentence chosen by intencion in the English template
EnglishBody(intencion) ==
  CASE intencion \in {maquina, operador, ambos} -> "We will send you information about our vending machines"
    [] intencion = pizzas -> "We will send you information about our pizzas catalog"
    [] intencion = soporte -> "We have received your technical support request"
    [] OTHER -> "We will reply with the information you requested."

\* the sentences chosen by intencion in the Spanish template
SpanishBody(intencion, ubicacion, pais) ==
  CASE intencion \in {maquina, operador, ambos} ->
         <<"Hemos recibido tu consulta sobre nuestras maquinas SmartChef24h">>
         \o (IF Truthy(ubicacion) THEN <<" en ">> \o String(ubicacion)
             ELSE IF Truthy(pais) /\ pais # Str(Desconocido)
             THEN <<" en ">> \o String(pais)
             ELSE <<>>)
         \o <<". Te enviaremos una propuesta adaptada a tu caso.", "\n">>
    [] intencion = pizzas ->
         <<"Hemos recibido tu interes por nuestras pizzas">>
         \o (IF Truthy(pais) /\ pais # Str(Desconocido)
             THEN <<" para ">> \o String(pais) ELSE <<>>)
         \o <<".", "\n">>
    [] intencion = soporte ->
         <<"Hemos recibido tu consulta de soporte tecnico.", "\n">>
    [] intencion = info ->
         <<"Hemos recibido tu consulta y te responderemos.", "\n">>
    [] OTHER ->
         <<"Hemos recibido tu mensaje y lo revisaremos.", "\n">>

\* citaUrl && (maquina || operador || ambos), the gate of the English template
puedeOfrecerCitaEnglish(cita, intencion) ==
  Truthy(cita) /\ intencion \in {maquina, operador, ambos}

\* puedeOfrecerCita, the gate of the Spanish template
puedeOfrecerCita(cita, intencion, urg) ==
  Truthy(cita) /\ intencion \in {maquina, operador, ambos, info} /\ urg # baja

\* buildSuggestedReply(ai, originalBody) where it does not throw
buildSuggestedReply(a, b, e) ==
  LET nombre == Or(Or(Or(b.nombre, b.name), b.contact_name),
                   Str(<<"H","o","l","a">>))
      idioma == toLowerCase(Or(a.idioma, Str(es)).v)
      intencion == lower(a.intencion)
      urg == lower(a.urgencia)
      pais == Or(a.pais, Str(<<>>))
      datos == Or(a.datos_detectados, EmptyDatos)
      ubicacion == IF Truthy(ubicacionOf(datos))
                      /\ toLowerCase(ubicacionOf(datos).v) # noespecifica
                   THEN ubicacionOf(datos) ELSE Str(<<>>)
      cita == citaUrl(e)
      baseNombre == <<"Hola ">> \o String(nombre) \o <<",">>
      isSpanish == idioma \in {es, ca}
      english ==
        baseNombre \o <<" thank you for contacting us.", "\n", "\n">>
        \o <<EnglishBody(intencion), "\n">>
        \o (IF puedeOfrecerCitaEnglish(cita, intencion)
            THEN <<"\n", BookCallEn>> \o cita.v ELSE <<>>)
      spanish ==
        baseNombre \o <<" gracias por contactar con Piznalia / La Pizzerina.", "\n", "\n">>
        \o SpanishBody(intencion, ubicacion, pais)
        \o (IF puedeOfrecerCita(cita, intencion, urg)
            THEN <<"\n", "Si lo prefieres, podemos comentarlo en detalle en una llamada.",
                   "\n", BookCallEs>> \o cita.v \o <<"\n">>
            ELSE <<>>)
        \o <<"\n", "Un saludo,", "\n", "Equipo Piznalia / La Pizzerina">>
  IN trim(IF isSpanish THEN spanish ELSE english)

(***************************************************************************)
(* The pure functions called on their own: normalizeAIResult on the values *)
(* JSON.parse can return, and buildTagNames, the priority computation and  *)
(* buildSuggestedReply on analyses and submissions.  fcall holds the       *)
(* arguments of one call and, once it has run, its outcome.                *)
(***************************************************************************)
\* the values a field of the model output can hold (Undef: the key is absent)
FieldValues ==
  { Undef, Str(<<>>), Num(0), Str(<<"a">>), Str(<<"b">>), Num(7) }

\* the five fields read under a primary and an alternate key
KeyPairs ==
  { <<"intencion", "intent">>, <<"idioma", "language">>, <<"pais", "country">>,
    <<"urgencia", "urgency">>, <<"datos_detectados", "data">> }

\* parsed model output: null, or an object holding any two values under the
\* two keys of one field
ParsedValues ==
  { [NoDoc EXCEPT !.isNull = TRUE] }
  \cup { [NoDoc EXCEPT ![k[1]] = p, ![k[2]] = q] :
           k \in KeyPairs, p \in FieldValues, q \in FieldValues }

IntentValues ==
  { Undef, Str(<<>>), Str(maquina), Str(<<"M","a","q","u","i","n","a">>),
    Str(pizzas), Str(ambos), Str(operador), Str(soporte), Str(info),
    Str(otros), Str(<<"x">>), Num(5) }

UrgencyValues ==
  { Undef, Str(<<>>), Str(alta), Str(<<"A","L","T","A">>), Str(media),
    Str(baja), Str(<<"x">>), Num(3) }

LanguageValues == { Undef, Str(es), Str(<<"C","A">>), Str(<<"e","n">>), Num(1) }

LocationValues ==
  { Undef, EmptyDatos, Obj([ubicacion |-> Str(<<"V","i","g","o">>)]),
    Obj([ubicacion |-> Str(<<"N","o"," ","e","s","p","e","c","i","f","i","c","a">>)]),
    Obj([ubicacion |-> Num(5)]), Str(<<"x">>) }

OriginValues ==
  { Undef, Str(<<"w","e","b">>), Str(<<"W","e","b">>), Str(<<"c","i","t","a">>),
    Str(<<"x">>) }

ChannelValues ==
  { Undef, Str(<<"c","i","t","a">>), Str(llamada), Str(<<"x">>) }

\* the analysis normalizeAIResult returns for an empty object
DefaultAI == normalizeAIResult(NoDoc)

\* a submission with text
TextBody == [NoBody EXCEPT !.text = Str(<<"a">>)]

NoArgs == [NoCall EXCEPT !.state = "called", !.a = DefaultAI, !.b = TextBody]

NormalizeCalls ==
  { [NoArgs EXCEPT !.fn = "normalizeAIResult", !.parsed = d] : d \in ParsedValues }

TagCalls ==
  { [NoArgs EXCEPT !.fn = "buildTagNames",
       !.a = [DefaultAI EXCEPT !.intencion = i, !.urgencia = u],
       !.b = [TextBody EXCEPT !.origen = o, !.channel = c]] :
      i \in IntentValues, u \in UrgencyValues, o \in OriginValues,
      c \in ChannelValues }

PriorityCalls ==
  { [NoArgs EXCEPT !.fn = "priority", !.a = [DefaultAI EXCEPT !.urgencia = u]] :
      u \in UrgencyValues }

ReplyCalls ==
  { [NoArgs EXCEPT !.fn = "buildSuggestedReply",
       !.a = [DefaultAI EXCEPT !.idioma = l, !.intencion = i, !.urgencia = u,
                               !.pais = p, !.datos_detectados = d],
       !.b = [TextBody EXCEPT !.name = n]] :
      l \in LanguageValues, i \in IntentValues, u \in UrgencyValues,
      p \in {Undef, Str(Desconocido), Str(Espana)}, d \in LocationValues,
      n \in {Undef, Str(<<"A","n","a">>)} }

InitFunctions ==
  /\ env \in {AllSet, [AllSet EXCEPT !.ODOO_APPOINTMENT_URL = FALSE]}
  /\ cachedOdooUid = Undef
  /\ pc = [r \in Reqs |-> "idle"]
  /\ handler = [r \in Reqs |-> "none"]
  /\ body = [r \in Reqs |-> NoBody]
  /\ ai = [r \in Reqs |-> NoAI]
  /\ uid = [r \in Reqs |-> Undef]
  /\ countryId = [r \in Reqs |-> Undef]
  /\ tagIds = [r \in Reqs |-> <<>>]
  /\ calls = [r \in Reqs |-> <<>>]
  /\ response = [r \in Reqs |-> NoResponse]
  /\ endedBy = [r \in Reqs |-> NoReply]
  /\ leads = <<>>
  /\ authGranted = {}
  /\ fcall \in NormalizeCalls \cup TagCalls \cup PriorityCalls \cup ReplyCalls

\* the call returns x
Return(x) == fcall' = [fcall EXCEPT !.state = "returned", !.ret = x]

\* the call throws a TypeError
Throw == fcall' = [fcall EXCEPT !.state = "threw"]

Called(fn) ==
  /\ fcall.fn = fn
  /\ fcall.state = "called"
  /\ UNCHANGED <<env, cachedOdooUid, pc, handler, body, ai, uid, countryId,
                 tagIds, calls, response, endedBy, leads, authGranted>>

CallNormalizeAIResult ==
  /\ Called("normalizeAIResult")
  /\ IF normalizeAIResultThrows(fcall.parsed)
     THEN Throw
     ELSE Return(normalizeAIResult(fcall.parsed))

CallBuildTagNames ==
  /\ Called("buildTagNames")
  /\ IF buildTagNamesThrows(fcall.a, fcall.b)
     THEN Throw
     ELSE Return(buildTagNames(fcall.a, fcall.b))

CallPriority ==
  /\ Called("priority")
  /\ IF lowerThrows(fcall.a.urgencia)
     THEN Throw
     ELSE Return(priority(fcall.a))

CallBuildSuggestedReply ==
  /\ Called("buildSuggestedReply")
  /\ IF buildSuggestedReplyThrows(fcall.a)
     THEN Throw
     ELSE Return(buildSuggestedReply(fcall.a, fcall.b, env))

NextFunctions ==
  \/ CallNormalizeAIResult
  \/ CallBuildTagNames
  \/ CallPriority
  \/ CallBuildSuggestedReply

SpecFunctions == InitFunctions /\ [][NextFunctions]_vars

(***************************************************************************)
(* Properties                                                              *)
(***************************************************************************)
\* request r has issued the remote call c
Issued(r, c) == \E i \in 1..Len(calls[r]) : calls[r][i] = c

\* request r is inside createOdooLead, past authenticateOdoo
PastAuth(r) ==
  pc[r] \in {"country", "countrywait", "tags", "tagswait", "create", "createwait"}

\* every Odoo setting is set
OdooConfigured ==
  env.ODOO_BASE_URL /\ env.ODOO_DB /\ env.ODOO_USER_EMAIL /\ env.ODOO_API_KEY

\* C1 (as claimed): whatever the CRM answers to the country lookup or to the
\* tag lookup, the request is not ended by that answer: createOdooLead goes
\* on towards the create call.
C1_LookupFailureNeverAborts ==
  [][\A r \in Reqs :
       pc[r] \in {"countrywait", "tagswait"} => pc'[r] # "done"]_vars

\* C2 (as claimed): once a uid is cached, the cache never changes again.
C2_CacheNeverChanges ==
  [][Truthy(cachedOdooUid) => cachedOdooUid' = cachedOdooUid]_vars

\* C2 (amended): once a uid is cached the cache is never cleared; every
\* authenticateOdoo call that starts while a uid is cached returns that uid
\* and issues no remote call, leaving the cache as it is; the cached value is
\* replaced only by the uid of an authenticate call that was already in
\* flight.
C2_CacheHit ==
  [][/\ Truthy(cachedOdooUid) => Truthy(cachedOdooUid')
     /\ \A r \in Reqs :
          (pc[r] = "authenticate" /\ pc'[r] # "authenticate" /\ Truthy(cachedOdooUid))
            => /\ pc'[r] = "country"
               /\ uid'[r] = cachedOdooUid
               /\ calls'[r] = calls[r]
               /\ cachedOdooUid' = cachedOdooUid
     /\ cachedOdooUid' # cachedOdooUid
          => \E r \in Reqs : /\ pc[r] = "auth" /\ pc'[r] = "country"
                             /\ cachedOdooUid' = uid'[r]]_vars

\* C2 witness: a request was served from the cache: it is past
\* authenticateOdoo with the cached uid and has issued no authenticate call.
C2_Witness ==
  \E r \in Reqs :
    /\ pc[r] = "country" /\ ~Issued(r, "authenticate")
    /\ Truthy(uid[r]) /\ uid[r] = cachedOdooUid

\* C3: with an empty cache and an Odoo setting unset, authenticateOdoo fails
\* without a remote call; with the settings set it issues the call; a request
\* leaves the pending authenticate call either with an error response and the
\* cache untouched, or with a uid the CRM granted; the cache is written only
\* by that success.
C3_AuthFailure ==
  [][/\ \A r \in Reqs :
          /\ (pc[r] = "authenticate" /\ pc'[r] # "authenticate"
                /\ ~Truthy(cachedOdooUid) /\ ~OdooConfigured)
               => /\ pc'[r] = "done" /\ response'[r].status = 500
                  /\ ~response'[r].ok
                  /\ calls'[r] = calls[r]
                  /\ cachedOdooUid' = cachedOdooUid
          /\ (pc[r] = "authenticate" /\ pc'[r] # "authenticate"
                /\ ~Truthy(cachedOdooUid) /\ OdooConfigured)
               => pc'[r] = "auth" /\ calls'[r] = Append(calls[r], "authenticate")
          /\ (pc[r] = "auth" /\ pc'[r] = "done")
               => /\ response'[r].status = 500 /\ ~response'[r].ok
                  /\ cachedOdooUid' = cachedOdooUid
          /\ (pc[r] = "auth" /\ pc'[r] \notin {"auth", "done"})
               => /\ pc'[r] = "country"
                  /\ uid'[r] \in authGranted' /\ cachedOdooUid' = uid'[r]
     /\ cachedOdooUid' # cachedOdooUid
          => \E r \in Reqs : pc[r] = "auth" /\ pc'[r] = "country"]_vars

\* C3 witness: a remote authenticate call has failed and the cache is unset.
C3_Witness ==
  \E r \in Reqs :
    /\ pc[r] = "done" /\ endedBy[r].call = "authenticate"
    /\ response[r].status = 500 /\ ~Truthy(cachedOdooUid)

\* C4: under every interleaving the cache is empty or holds a uid the CRM
\* granted to a successful authenticate call, it is set as soon as one call
\* has succeeded, and every request past authenticateOdoo carries a granted
\* uid.
C4_HarmlessRace ==
  /\ Truthy(cachedOdooUid) => cachedOdooUid \in authGranted
  /\ authGranted # {} => Truthy(cachedOdooUid)
  /\ \A r \in Reqs : PastAuth(r) => uid[r] \in authGranted

\* C4 witness: two requests raced: both issued their own authenticate call
\* and went on with different uids.
C4_Witness ==
  \E r1, r2 \in Reqs :
    /\ r1 # r2 /\ PastAuth(r1) /\ PastAuth(r2)
    /\ Issued(r1, "authenticate") /\ Issued(r2, "authenticate")
    /\ uid[r1] # uid[r2] /\ cachedOdooUid = uid[r2]

\* a value with no usable text: absent, or a string of white space only
Blank(x) == x.t # "str" \/ \A i \in 1..Len(x.v) : x.v[i] \in {" ", "\t", "\n"}

\* a Gemini text that is one JSON document, white space around it
IsJsonText(t) == \E d \in DocTokens : t = Str(<<" ", d, "\n">>)

\* the Gemini reply that ended request r carried text that is no JSON
NonJsonContent(r) ==
  /\ endedBy[r].call = "gemini" /\ endedBy[r].reply.kind = "ok"
  /\ ~Blank(endedBy[r].reply.text) /\ ~IsJsonText(endedBy[r].reply.text)

\* the LLM stage of request r failed: no API key, or a Gemini reply that is no
\* success, has no content, or has content that is no JSON
GeminiFailure(r) ==
  \/ ~env.GEMINI_API_KEY
  \/ /\ endedBy[r].call = "gemini"
     /\ \/ endedBy[r].reply.kind # "ok"
        \/ Blank(endedBy[r].reply.text)
        \/ ~IsJsonText(endedBy[r].reply.text)

\* the error message of each LLM-stage failure other than non-JSON content
GeminiFailureMessage(r) ==
  IF ~env.GEMINI_API_KEY THEN <<"Falta la variable de entorno GEMINI_API_KEY">>
  ELSE CASE endedBy[r].reply.kind = "reject" -> <<"fetch failed">>
         [] endedBy[r].reply.kind = "http" -> <<"Error Gemini HTTP ", "status">>
         [] endedBy[r].reply.kind = "unreadable" -> <<"Unexpected token in JSON">>
         [] OTHER -> <<"Gemini devolvio contenido vacio">>

\* C5: /lead/analyze answers every LLM-stage failure with status 200 and a
\* "pendiente" result whose motive is the parse-error marker for non-JSON
\* content and the error message otherwise; it never answers with an error
\* status once the text is there.
C5_AnalyzeSoftFailure ==
  \A r \in Reqs :
    (handler[r] = "analyze" /\ pc[r] = "done" /\ ~MissingText(body[r]))
      => /\ response[r].status = 200 /\ response[r].ok
         /\ GeminiFailure(r)
              => /\ response[r].ai_status = "pendiente"
                 /\ response[r].motivo =
                      IF NonJsonContent(r) THEN <<"error_parseo">>
                      ELSE GeminiFailureMessage(r)

\* C5 witness: /lead/analyze has answered non-JSON model content with the
\* parse-error marker.
C5_Witness ==
  \E r \in Reqs :
    /\ handler[r] = "analyze" /\ pc[r] = "done" /\ NonJsonContent(r)
    /\ response[r].status = 200 /\ response[r].motivo = <<"error_parseo">>

\* the create call of request r was answered with a numeric identifier
Created(r) ==
  /\ endedBy[r].call = "create" /\ endedBy[r].reply.kind = "ok"
  /\ endedBy[r].reply.result.t = "num"

\* the response of request r is the hard error: status 500, ok false, no lead_id
HardError(r) ==
  response[r].status = 500 /\ ~response[r].ok /\ response[r].lead_id = Undef

\* C6: /lead/analyze-and-create and /webhooks/zadarma/call answer a failure
\* of the LLM stage, of authentication or of the create call with the hard
\* error; after an LLM failure the request has issued no CRM call; a lead_id
\* is sent only when the create call was answered with that identifier.
C6_HardFailure ==
  \A r \in Reqs :
    (handler[r] \in {"create", "zadarma"} /\ pc[r] = "done"
       /\ response[r].status # 400)
      => /\ GeminiFailure(r)
              => HardError(r) /\ calls[r] \in {<<>>, <<"gemini">>}
         /\ endedBy[r].call = "authenticate" => HardError(r)
         /\ (~OdooConfigured /\ ~GeminiFailure(r)) => HardError(r)
         /\ (endedBy[r].call = "create" /\ ~Created(r)) => HardError(r)
         /\ response[r].lead_id # Undef
              => /\ Created(r) /\ response[r].lead_id = endedBy[r].reply.result
                 /\ response[r].status = 200 /\ response[r].ok
                 /\ Issued(r, "create")
                 /\ response[r].lead_id.n \in 1..Len(leads)

\* C6 witness: one request was answered with a lead_id, another with the hard
\* error after its LLM stage failed.
C6_Witness ==
  \E r1, r2 \in Reqs :
    /\ pc[r1] = "done" /\ handler[r1] = "create" /\ Created(r1)
    /\ response[r1].lead_id # Undef
    /\ pc[r2] = "done" /\ handler[r2] = "zadarma" /\ GeminiFailure(r2)
    /\ endedBy[r2].call = "gemini" /\ HardError(r2)

\* a field that is there with a text in it
Present(x) == x.t = "str" /\ x.v # <<>>

\* C7: createOdooLead returns an identifier exactly when the create call was
\* answered with success status, no error and a numeric result; otherwise the
\* request ends with an error and no identifier; for an Odoo error the message
\* is error.data.message when present, else error.message, else the
\* serialized error.
C7_CreateResult ==
  \A r \in Reqs :
    (pc[r] = "done" /\ endedBy[r].call = "create")
      => LET reply == endedBy[r].reply IN
         /\ Created(r)
              => response[r].lead_id = reply.result /\ response[r].status = 200
         /\ ~Created(r)
              => /\ response[r].lead_id = Undef /\ response[r].status = 500
                 /\ response[r].message # <<>>
         /\ reply.kind = "error"
              => response[r].message =
                   <<"Odoo error creando lead: ">> \o
                     (IF Present(reply.error.data_message)
                      THEN reply.error.data_message.v
                      ELSE IF Present(reply.error.message)
                      THEN reply.error.message.v
                      ELSE <<"{error}">>)

\* C7 witness: an Odoo error with both messages was reported with the nested
\* one.
C7_Witness ==
  \E r \in Reqs :
    /\ pc[r] = "done" /\ endedBy[r].call = "create"
    /\ endedBy[r].reply.kind = "error"
    /\ Present(endedBy[r].reply.error.data_message)
    /\ Present(endedBy[r].reply.error.message)
    /\ response[r].message = <<"Odoo error creando lead: ", "detail">>

\* how many create calls request r has issued
CreateCalls(r) == Cardinality({i \in 1..Len(calls[r]) : calls[r][i] = "create"})

\* the requests whose createOdooLead returned an identifier
Succeeded == {r \in Reqs : pc[r] = "done" /\ response[r].lead_id # Undef}

\* C8: every invocation that reaches the create step issues exactly one
\* create call of its own, whatever records exist; the N invocations that
\* returned an identifier issued N create calls, hold N different identifiers
\* and left N records in the CRM.
C8_EveryInvocationCreates ==
  /\ \A r \in Reqs :
       (pc[r] = "createwait" \/ r \in Succeeded) => CreateCalls(r) = 1
  /\ \A r1, r2 \in Succeeded :
       r1 # r2 => response[r1].lead_id # response[r2].lead_id
  /\ Cardinality(Succeeded) = Len(leads)

\* C8 witness: two invocations with the same analysis and submission have
\* both succeeded and the CRM holds two identical records.
C8_Witness ==
  /\ Succeeded = {1, 2} /\ Len(leads) = 2 /\ leads[1] = leads[2]
  /\ body[1] = body[2] /\ handler[1] = handler[2]

\* the request has no usable text: every text field of the body (the
\* transcript, for the call webhook) is absent, empty or white space
NoUsableText(h, b) ==
  IF h = "zadarma" THEN Blank(b.transcript)
  ELSE Blank(b.text) /\ Blank(b.mensaje) /\ Blank(b.message) /\ Blank(b.content)

\* C9: a request with no usable text is answered 400 (missing text) by its
\* first step, which issues no remote call and leaves the uid cache and the
\* CRM as they are; the request never issues a call afterwards.
C9_MissingText ==
  /\ [](\A r \in Reqs :
          (pc[r] # "idle" /\ NoUsableText(handler[r], body[r]))
            => /\ pc[r] = "done" /\ calls[r] = <<>>
               /\ response[r].status = 400 /\ ~response[r].ok
               /\ response[r].error =
                    IF handler[r] = "zadarma" THEN "missing_transcript"
                    ELSE "missing_text")
  /\ [][\A r \in Reqs :
          (pc[r] = "idle" /\ pc'[r] # "idle" /\ NoUsableText(handler'[r], body'[r]))
            => cachedOdooUid' = cachedOdooUid /\ leads' = leads]_vars

\* C9 witness: /lead/analyze-and-create has answered a white-space text with
\* 400 while another request had already filled the uid cache.
C9_Witness ==
  \E r \in Reqs :
    /\ pc[r] = "done" /\ handler[r] = "create"
    /\ body[r].text = Str(<<" ", "\n">>)
    /\ response[r].status = 400 /\ calls[r] = <<>>
    /\ Truthy(cachedOdooUid)

\* the name is empty, or the sentinel "desconocido" in some letter case
EmptyOrSentinel(x) ==
  \/ x = Undef
  \/ x = Str(<<>>)
  \/ /\ x.t = "str" /\ Len(x.v) = Len(desconocido)
     /\ \A i \in 1..Len(x.v) : x.v[i] \in {desconocido[i], DESCONOCIDO[i]}

\* C10: called with an empty name or with the sentinel in any letter case,
\* getCountryIdByName returns null and the CRM has received no call.
C10_CountryShortCircuit ==
  [][\A r \in Reqs :
       (pc[r] = "country" /\ pc'[r] # "country" /\ EmptyOrSentinel(ai[r].pais))
         => /\ pc'[r] = "tags" /\ countryId'[r] = Undef
            /\ calls'[r] = calls[r]]_vars

\* C10 witness: a call with the empty name and a call with the sentinel in
\* mixed case have both returned null with the call counter at zero.
C10_Witness ==
  \E r1, r2 \in Reqs :
    /\ ai[r1].pais = Str(<<>>) /\ pc[r1] = "tags" /\ calls[r1] = <<>>
    /\ countryId[r1] = Undef
    /\ ai[r2].pais = Str(<<"d","E","s","C","o","N","o","C","i","D","o">>)
    /\ pc[r2] = "tags" /\ calls[r2] = <<>> /\ countryId[r2] = Undef

\* x is a string, or is missing
StringOrAbsent(x) == x = Undef \/ IsString(x)

\* the direct call of fn has returned
Returned(fn) == fcall.fn = fn /\ fcall.state = "returned"

\* the number of names in t that begin with "IA:"
CountIA(t) == Cardinality({ i \in 1..Len(t) : startsWithIA(t[i]) })

C12_NormalizeNeverFails ==
  fcall.fn = "normalizeAIResult" => fcall.state # "threw"

\* the value the raw output holds under key k
Field(d, k) == d[k]

\* C13 as stated: when the raw output holds a value under both keys of a
\* field, the normalized field is the primary key's value.
C13_PrimaryWins ==
  Returned("normalizeAIResult") =>
    \A k \in KeyPairs :
      (Field(fcall.parsed, k[1]) # Undef /\ Field(fcall.parsed, k[2]) # Undef)
        => Field(fcall.ret, k[1]) = Field(fcall.parsed, k[1])

\* C13: when the raw output holds a value under both keys of a field, the
\* normalized field is the primary key's value if that value is truthy (not
\* "", 0, false or null); otherwise it is the alternate key's value if that
\* one is truthy, and a value that is neither of the two falsy ones (the
\* default) if both are falsy.
C13_TruthyPrimaryWins ==
  Returned("normalizeAIResult") =>
    \A k \in KeyPairs :
      LET p == Field(fcall.parsed, k[1])
          q == Field(fcall.parsed, k[2])
          n == Field(fcall.ret, k[1])
      IN (p # Undef /\ q # Undef) =>
           /\ Truthy(p) => n = p
           /\ (~Truthy(p) /\ Truthy(q)) => n = q
           /\ (~Truthy(p) /\ ~Truthy(q)) => (Truthy(n) /\ n # p /\ n # q)

\* two different truthy values under intencion and intent
C13_Witness ==
  /\ Returned("normalizeAIResult")
  /\ fcall.parsed.intencion = Str(<<"a">>)
  /\ fcall.parsed.intent = Str(<<"b">>)
  /\ fcall.ret.intencion = Str(<<"a">>)

\* the reply holds a booking suggestion
HasBooking(msg) == \E i \in 1..Len(msg) : msg[i] \in {BookCallEn, BookCallEs}

\* C14: in both language branches the reply holds the booking suggestion
\* only if a booking URL is configured, the urgency is not low and the
\* intent is one of maquina, operador, ambos, info; with a low urgency or
\* without a booking URL it holds none.
C14_BookingGate ==
  Returned("buildSuggestedReply") =>
    /\ HasBooking(fcall.ret) =>
         /\ env.ODOO_APPOINTMENT_URL
         /\ lower(fcall.a.urgencia) # baja
         /\ lower(fcall.a.intencion) \in {maquina, operador, ambos, info}
    /\ (lower(fcall.a.urgencia) = baja \/ ~env.ODOO_APPOINTMENT_URL)
         => ~HasBooking(fcall.ret)

\* C15: buildSuggestedReply does not raise, whatever the analysis holds.
C15_ReplyNeverRaises ==
  fcall.fn = "buildSuggestedReply" => fcall.state # "threw"

Rank(c) ==
  CASE c = "gemini" -> 0
    [] c = "authenticate" -> 1
    [] c = "country" -> 2
    [] c = "tags" -> 3
    [] OTHER -> 4

\* request r ended because authenticateOdoo failed
AuthFailed(r) ==
  /\ pc[r] = "done"
  /\ \/ endedBy[r].call = "authenticate"
     \/ response[r].message = MissingOdooVariables

\* C17: the remote calls of one invocation are issued in the order
\* authenticate, country lookup, tag lookup, create, each at most once, with
\* create the last one; a create call follows a tag lookup; a lookup or a
\* create call is issued only by an invocation that holds a uid the CRM
\* granted; and an invocation whose authentication failed has issued neither
\* a lookup nor a create call.
C17_CallOrder ==
  /\ [](\A r \in Reqs :
          /\ \A i, j \in 1..Len(calls[r]) :
               i < j => Rank(calls[r][i]) < Rank(calls[r][j])
          /\ Issued(r, "create") => Issued(r, "tags")
          /\ AuthFailed(r) =>
               ~(Issued(r, "country") \/ Issued(r, "tags") \/ Issued(r, "create")))
  /\ [][\A r \in Reqs :
          (\E c \in {"country", "tags", "create"} : calls'[r] = Append(calls[r], c))
            => (Truthy(uid[r]) /\ uid[r] \in authGranted)]_vars

\* one invocation has issued all four calls, another one (cache hit, country
\* short-circuit) only the tag lookup and the create call
C17_Witness ==
  \E r, q \in Reqs :
    /\ calls[r] = <<"gemini", "authenticate", "country", "tags", "create">>
    /\ calls[q] = <<"gemini", "tags", "create">>

====
